---- MODULE Spec2Model ----
(***************************************************************************)
(* FixedWindowRateLimiter (src/rate_limiter.py): a per-client sliding log  *)
(* of admitted timestamps.  allowRequest expires the stale prefix of the   *)
(* client's deque, admits when fewer than max_requests entries remain and  *)
(* records the admitted timestamp at the back.                             *)
(*                                                                         *)
(* Spec     : the single-threaded reference behaviour, one action per call.*)
(* SpecConc : the same code run by several threads, one action per step    *)
(*            the interpreter can interleave (the class takes no lock).    *)
(***************************************************************************)
EXTENDS Integers, Sequences, FiniteSets, TLC

\* ---------------------------------------------------------------- bounds
MaxRequests == 2        \* largest max_requests passed to the constructor
SmallWindow == 2        \* a short window_size, so that entries expire within 0..MaxTime
MaxTime == 2            \* caller timestamps range over 0..MaxTime (and BoundaryTime)
MaxCalls == 4           \* allowRequest calls per run
MaxConcCalls == 3       \* allowRequest calls per run of SpecConc
NThreads == 2           \* concurrent caller threads (SpecConc)

\* ------------------------------------------------- values taken from tests
BoundaryWindow == 10    \* test_exact_window_boundary: FixedWindowRateLimiter(2, 10)
BoundaryTime == 11      \* test_exact_window_boundary: allowRequest("A", 11)

Clients == {"A", "B"}
Threads == 1..NThreads
\* __init__ validates nothing, so callers can pass non-positive arguments
MaxRequestsArgs == {-1, 0} \cup (1..MaxRequests)
WindowSizeArgs == {-1, 0, SmallWindow, BoundaryWindow}
Times == (0..MaxTime) \cup {BoundaryTime}

VARIABLES
    constructed,   \* TRUE once __init__ has returned an instance
    max_requests,  \* self.max_requests
    window_size,   \* self.window_size
    request_logs,  \* self.request_logs: created keys -> deque (front = index 1)
    history,       \* per client: calls made, time of the latest call, whether the
                   \* times came in non-decreasing order, admitted count per timestamp
    last,          \* the most recent completed call and its intermediate values
    solo,          \* per client c: request_logs of a run that received only c's calls
    threads        \* SpecConc: each thread's position inside allowRequest

vars == <<constructed, max_requests, window_size, request_logs, history, last, solo, threads>>

\* ------------------------------------------------------------ the code
\* line 49, right conjunct: (curr_time - self.request_logs[clientId][0]) >= self.window_size
ExpiredStrict(ts, curr_time) == (curr_time - ts) > window_size
Expired(ts, curr_time) == (curr_time - ts) >= window_size

\* lines 49-50: while log and expired(log[0]): log.popleft()
ExpireAll(log, curr_time) == SelectSeq(log, LAMBDA ts : ~Expired(ts, curr_time))
RECURSIVE Expire(_, _)
Expire(log, curr_time) ==
    IF log # <<>> /\ Expired(Head(log), curr_time)
    THEN Expire(Tail(log), curr_time)
    ELSE log

\* defaultdict(deque): reading a missing key creates it with an empty deque
GetOrCreate(logs, clientId) ==
    IF clientId \in DOMAIN logs THEN logs ELSE logs @@ (clientId :> <<>>)

RECURSIVE TotalLen(_, _)
TotalLen(logs, keys) ==
    IF keys = {} THEN 0
    ELSE LET k == CHOOSE x \in keys : TRUE
         IN Len(logs[k]) + TotalLen(logs, keys \ {k})

\* line 53: valid = len(self.request_logs[clientId]) < self.max_requests
ValidLeq(logs, clientId) == Len(logs[clientId]) <= max_requests
ValidGlobal(logs, clientId) == TotalLen(logs, DOMAIN logs) < max_requests
Valid(logs, clientId) == Len(logs[clientId]) < max_requests

\* line 57: self.request_logs[clientId].append(curr_time)
RecordFront(log, curr_time) == <<curr_time>> \o log
Record(log, curr_time) == Append(log, curr_time)

\* lines 46-58, the whole call on a given mapping
CallShared(logs, clientId, curr_time) ==
    LET created == GetOrCreate(logs, clientId)
        trimmed == Expire(created[clientId], curr_time)
        afterExpiry == [created EXCEPT ![clientId] = trimmed]
        valid == Valid(afterExpiry, clientId)
        written == IF valid THEN Record(trimmed, curr_time) ELSE trimmed
    IN [logs |-> [k \in DOMAIN created |-> written],
        trimmed |-> trimmed,
        valid |-> valid]
CallPruning(logs, clientId, curr_time) ==
    LET created == GetOrCreate(logs, clientId)
        trimmed == Expire(created[clientId], curr_time)
        afterExpiry == [created EXCEPT ![clientId] = trimmed]
        valid == Valid(afterExpiry, clientId)
        written == IF valid THEN Record(trimmed, curr_time) ELSE trimmed
    IN [logs |-> IF written = <<>>
                 THEN [k \in DOMAIN created \ {clientId} |-> created[k]]
                 ELSE [afterExpiry EXCEPT ![clientId] = written],
        trimmed |-> trimmed,
        valid |-> valid]
Call(logs, clientId, curr_time) ==
    LET created == GetOrCreate(logs, clientId)
        trimmed == Expire(created[clientId], curr_time)
        afterExpiry == [created EXCEPT ![clientId] = trimmed]
        valid == Valid(afterExpiry, clientId)
    IN [logs |-> IF valid
                 THEN [afterExpiry EXCEPT ![clientId] = Record(trimmed, curr_time)]
                 ELSE afterExpiry,
        trimmed |-> trimmed,
        valid |-> valid]

\* ------------------------------------------------------------ bookkeeping
EmptyMap == [c \in {} |-> <<>>]
NoCall == [called |-> FALSE, clientId |-> "A", curr_time |-> 0, pre |-> <<>>,
           trimmed |-> <<>>, valid |-> FALSE, soloValid |-> FALSE]
IdleThread == [pc |-> "idle", clientId |-> "A", curr_time |-> 0, valid |-> FALSE,
               entered |-> 0, iters |-> 0]

NoHistory == [calls |-> 0, first |-> 0, latest |-> 0, ordered |-> TRUE,
              admitted |-> [t \in Times |-> 0]]
CallsMade == history["A"].calls + history["B"].calls
\* a call with timestamp curr_time starts
LogCall(h, curr_time) ==
    [h EXCEPT !.calls = @ + 1,
              !.first = IF h.calls = 0 THEN curr_time ELSE @,
              !.latest = curr_time,
              !.ordered = @ /\ (h.calls = 0 \/ h.latest <= curr_time)]
\* a call with timestamp curr_time is decided
LogResult(h, curr_time, valid) ==
    IF valid THEN [h EXCEPT !.admitted[curr_time] = @ + 1] ELSE h
Log(h, curr_time, valid) == LogResult(LogCall(h, curr_time), curr_time, valid)
LogOf(logs, c) == IF c \in DOMAIN logs THEN logs[c] ELSE <<>>

Init ==
    /\ constructed = FALSE
    /\ max_requests = 0
    /\ window_size = 0
    /\ request_logs = EmptyMap
    /\ history = [c \in Clients |-> NoHistory]
    /\ last = NoCall
    /\ solo = [c \in Clients |-> EmptyMap]
    /\ threads = [th \in Threads |-> IdleThread]

\* lines 40-44: __init__(max_requests, window_size)
Construct(mr, ws) ==
    /\ ~constructed
    /\ constructed' = TRUE
    /\ max_requests' = mr
    /\ window_size' = ws
    /\ request_logs' = EmptyMap
    /\ UNCHANGED <<history, last, solo, threads>>

\* lines 46-58: allowRequest(clientId, curr_time), run to completion
AllowRequest(clientId, curr_time) ==
    /\ constructed
    /\ CallsMade < MaxCalls
    /\ LET r == Call(request_logs, clientId, curr_time)
           s == Call(solo[clientId], clientId, curr_time)
       IN /\ request_logs' = r.logs
          /\ history' = [history EXCEPT ![clientId] = Log(@, curr_time, r.valid)]
          /\ last' = [called |-> TRUE, clientId |-> clientId, curr_time |-> curr_time,
                      pre |-> LogOf(request_logs, clientId), trimmed |-> r.trimmed,
                      valid |-> r.valid, soloValid |-> s.valid]
          /\ solo' = [solo EXCEPT ![clientId] = s.logs]
    /\ UNCHANGED <<constructed, max_requests, window_size, threads>>

Next ==
    \/ \E mr \in MaxRequestsArgs, ws \in WindowSizeArgs : Construct(mr, ws)
    \/ \E c \in Clients, t \in Times : AllowRequest(c, t)

Spec == Init /\ [][Next]_vars

\* ------------------------------------------------ the code run by threads
\* One action per step between which the interpreter can switch threads; the
\* class holds no lock, so the steps of different threads interleave freely.
At(th, pc) == threads[th].pc = pc
Goto(th, pc) == threads' = [threads EXCEPT ![th].pc = pc]
MyLog(th) == LogOf(request_logs, threads[th].clientId)

\* line 46: a caller thread enters allowRequest(clientId, curr_time)
Begin(th, clientId, curr_time) ==
    /\ constructed /\ At(th, "idle")
    /\ CallsMade < MaxConcCalls
    /\ threads' = [threads EXCEPT ![th] =
                      [pc |-> "test", clientId |-> clientId,
                       curr_time |-> curr_time, valid |-> FALSE,
                       entered |-> Len(LogOf(request_logs, clientId)), iters |-> 0]]
    /\ history' = [history EXCEPT ![clientId] = LogCall(@, curr_time)]
    /\ UNCHANGED <<constructed, max_requests, window_size, request_logs, last, solo>>

\* line 49, left conjunct: truth value of self.request_logs[clientId]
LoopTest(th) ==
    /\ At(th, "test")
    /\ request_logs' = GetOrCreate(request_logs, threads[th].clientId)
    /\ Goto(th, IF MyLog(th) = <<>> THEN "check" ELSE "front")
    /\ UNCHANGED <<constructed, max_requests, window_size, history, last, solo>>

\* line 49, right conjunct: reads [0]; IndexError when another thread emptied the deque
ReadFront(th) ==
    /\ At(th, "front")
    /\ Goto(th, IF MyLog(th) = <<>> THEN "raised"
                ELSE IF Expired(Head(MyLog(th)), threads[th].curr_time) THEN "pop"
                ELSE "check")
    /\ UNCHANGED <<constructed, max_requests, window_size, request_logs, history, last, solo>>

\* line 50: popleft() removes whatever is at the front now; IndexError on an empty deque
PopLeftPeek(th) ==
    /\ At(th, "pop")
    /\ threads' = [threads EXCEPT ![th].pc = "test", ![th].iters = @ + 1]
    /\ UNCHANGED <<constructed, max_requests, window_size, request_logs, history, last, solo>>
PopLeft(th) ==
    /\ At(th, "pop")
    /\ IF MyLog(th) = <<>>
       THEN Goto(th, "raised") /\ UNCHANGED request_logs
       ELSE /\ request_logs' = [request_logs EXCEPT ![threads[th].clientId] = Tail(@)]
            /\ threads' = [threads EXCEPT ![th].pc = "test", ![th].iters = @ + 1]
    /\ UNCHANGED <<constructed, max_requests, window_size, history, last, solo>>

\* line 53: valid = len(...) < self.max_requests
CheckValid(th) ==
    /\ At(th, "check")
    /\ LET valid == Valid(request_logs, threads[th].clientId)
       IN threads' = [threads EXCEPT ![th].valid = valid,
                                     ![th].pc = IF valid THEN "record" ELSE "return"]
    /\ UNCHANGED <<constructed, max_requests, window_size, request_logs, history, last, solo>>

\* lines 56-57: append(curr_time)
RecordStep(th) ==
    /\ At(th, "record")
    /\ request_logs' = [request_logs EXCEPT ![threads[th].clientId] =
                           Record(@, threads[th].curr_time)]
    /\ Goto(th, "return")
    /\ UNCHANGED <<constructed, max_requests, window_size, history, last, solo>>

\* line 58: return valid
Return(th) ==
    /\ At(th, "return")
    /\ history' = [history EXCEPT ![threads[th].clientId] =
                      LogResult(@, threads[th].curr_time, threads[th].valid)]
    /\ threads' = [threads EXCEPT ![th] = IdleThread]
    /\ UNCHANGED <<constructed, max_requests, window_size, request_logs, last, solo>>

NextConc ==
    \/ \E mr \in MaxRequestsArgs, ws \in WindowSizeArgs : Construct(mr, ws)
    \/ \E th \in Threads, c \in Clients, t \in Times : Begin(th, c, t)
    \/ \E th \in Threads : LoopTest(th)
    \/ \E th \in Threads : ReadFront(th)
    \/ \E th \in Threads : PopLeft(th)
    \/ \E th \in Threads : CheckValid(th)
    \/ \E th \in Threads : RecordStep(th)
    \/ \E th \in Threads : Return(th)

SpecConc == Init /\ [][NextConc]_vars

\* ------------------------------------- the code run by one thread, step by step
\* The single-threaded reference behaviour at the grain of SpecConc: the only
\* caller is thread 1, which makes one call after the other.
Caller == 1
NextSeq ==
    \/ \E mr \in MaxRequestsArgs, ws \in WindowSizeArgs : Construct(mr, ws)
    \/ \E c \in Clients, t \in Times : Begin(Caller, c, t)
    \/ LoopTest(Caller)
    \/ ReadFront(Caller)
    \/ PopLeft(Caller)
    \/ CheckValid(Caller)
    \/ RecordStep(Caller)
    \/ Return(Caller)

SpecSeq == Init /\ [][NextSeq]_vars

\* ------------------------------------------------- vocabulary of the claims
Post == LogOf(request_logs, last.clientId)      \* the caller's log after the last call
Age(ts) == last.curr_time - ts                  \* age of ts at the last call
LastOrdered == history[last.clientId].ordered   \* that client's times never went back
PositiveConfig == constructed /\ max_requests > 0 /\ window_size > 0
Max0(n) == IF n < 0 THEN 0 ELSE n
MinOf(log) == CHOOSE x \in {log[i] : i \in DOMAIN log} :
                  \A y \in {log[i] : i \in DOMAIN log} : x <= y
Younger(log) == {i \in DOMAIN log : Age(log[i]) < window_size}
Removed == Len(last.pre) - Len(last.trimmed)

RECURSIVE SumAdmitted(_, _)
SumAdmitted(h, ts) ==
    IF ts = {} THEN 0
    ELSE LET t == CHOOSE x \in ts : TRUE
         IN h.admitted[t] + SumAdmitted(h, ts \ {t})
\* admitted requests of client c with timestamp in [w, w + window_size)
AdmittedIn(c, w) == SumAdmitted(history[c], {t \in Times : w <= t /\ t < w + window_size})
WindowStarts == (0 - BoundaryWindow - SmallWindow)..BoundaryTime

\* ------------------------------------------------------------------ claims

\* C1: allowRequest returns true if and only if the number of timestamps left
\* in the client's log after the expiry step of that call is strictly less than
\* max_requests.
C1_AdmitIffBelowLimit ==
    last.called => (last.valid <=> Len(last.trimmed) < max_requests)
\* a full log, one entry expired in the call, the call admitted
C1_Witness ==
    /\ last.called /\ max_requests > 0
    /\ Len(last.pre) = max_requests
    /\ Len(last.trimmed) = max_requests - 1
    /\ last.valid

\* C2 (as stated): on a limiter with positive configuration, after any sequence
\* of calls, no client has more than max_requests admitted timestamps inside any
\* window [w, w + window_size).
C2_CapacityAnyOrder ==
    PositiveConfig =>
        \A c \in Clients, w \in WindowStarts : AdmittedIn(c, w) <= max_requests
\* C2 (amended): for a client whose timestamps were supplied in non-decreasing
\* order, the admitted timestamps inside any window [w, w + window_size) number
\* at most max_requests (none at all when max_requests is negative).
C2_CapacityOrdered ==
    \A c \in Clients :
        history[c].ordered =>
            \A w \in WindowStarts : AdmittedIn(c, w) <= Max0(max_requests)
\* an ordered client filled a window to exactly max_requests and was then denied
C2_Witness ==
    /\ PositiveConfig /\ last.called /\ LastOrdered /\ ~last.valid
    /\ \E w \in WindowStarts : AdmittedIn(last.clientId, w) = max_requests

\* C3: every decision for a client, and the client's log after it, are the ones
\* of a run that received only that client's calls, whatever the other clients
\* did in between; the limit is per client, not global.
C3_Independence ==
    /\ last.called => last.valid = last.soloValid
    /\ \A c \in Clients : LogOf(request_logs, c) = LogOf(solo[c], c)
\* a call admitted while the logs of all clients together already held
\* max_requests entries or more
C3_Witness ==
    /\ last.called /\ last.valid /\ max_requests > 0
    /\ TotalLen(request_logs, DOMAIN request_logs) > max_requests
    /\ \A c \in Clients : LogOf(request_logs, c) # <<>>

C5_NoStaleAnyOrder ==
    (PositiveConfig /\ last.called) =>
        \A i \in DOMAIN Post : Age(Post[i]) < window_size
\* C5 (amended): when the client's timestamps were supplied in non-decreasing
\* order, right after a call every timestamp in its log is younger than
\* window_size, except the timestamp that very call recorded.
C5_NoStaleOrdered ==
    (last.called /\ LastOrdered) =>
        \A i \in DOMAIN Post :
            \/ Age(Post[i]) < window_size
            \/ (last.valid /\ i = Len(Post) /\ Post[i] = last.curr_time)
\* an ordered call that expired part of the log and kept the rest
C5_Witness ==
    /\ PositiveConfig /\ last.called /\ LastOrdered
    /\ Removed > 0 /\ last.trimmed # <<>>

\* C6: with non-decreasing timestamps, a call that finds exactly max_requests
\* entries whose oldest is t0 is denied and changes nothing while
\* curr_time < t0 + window_size, and is admitted once curr_time >= t0 + window_size.
C6_DeniedUntilOldestExpires ==
    (last.called /\ LastOrdered /\ last.pre # <<>> /\ Len(last.pre) = max_requests) =>
        LET t0 == MinOf(last.pre)
        IN /\ last.curr_time < t0 + window_size => (~last.valid /\ Post = last.pre)
           /\ last.curr_time >= t0 + window_size => last.valid
\* the log was full, an earlier call was denied, and the call made exactly
\* window_size after the oldest entry is admitted
C6_Witness ==
    /\ PositiveConfig /\ last.called /\ LastOrdered /\ last.valid
    /\ Len(last.pre) = max_requests
    /\ last.curr_time = MinOf(last.pre) + window_size
    /\ history[last.clientId].calls >
           SumAdmitted(history[last.clientId], Times)

\* C7: when the calls made for a client, possibly by concurrent threads, all
\* carry timestamps inside one window (non-decreasing, less than window_size
\* apart), the calls admitted number at most max_requests.
C7_ConcurrentCapacity ==
    PositiveConfig =>
        \A c \in Clients :
            (history[c].ordered /\ history[c].latest - history[c].first < window_size)
                => SumAdmitted(history[c], Times) <= max_requests

\* C8: no constructed limiter has a non-positive max_requests or window_size
\* (construction with such arguments is rejected).
C8_ConstructionRejects ==
    constructed => (max_requests > 0 /\ window_size > 0)

C10_RecordStep ==
    last.called =>
        Post = IF last.valid THEN last.trimmed \o <<last.curr_time>> ELSE last.trimmed
\* an admitted call that appended behind a retained entry
C10_Witness ==
    /\ last.called /\ last.valid /\ last.trimmed # <<>>
    /\ Len(Post) = Len(last.trimmed) + 1

\* C11: a call changes neither max_requests nor window_size, and leaves every
\* other client's entry of the mapping as it was (present or absent, same log).
C11_Frame ==
    [][constructed =>
          /\ max_requests' = max_requests
          /\ window_size' = window_size
          /\ \A o \in Clients \ {last'.clientId} :
                /\ (o \in DOMAIN request_logs') <=> (o \in DOMAIN request_logs)
                /\ LogOf(request_logs', o) = LogOf(request_logs, o)]_vars
\* an admitted call while another client holds a non-empty log
C11_Witness ==
    /\ last.called /\ last.valid
    /\ \E o \in Clients \ {last.clientId} :
          /\ LogOf(request_logs, o) # <<>>
          /\ LogOf(request_logs, o) # Post

\* C12: a client has an entry in request_logs exactly when allowRequest was
\* called for it at least once, and no step ever removes an entry, not even
\* one whose log is empty.
C12_Lifecycle ==
    /\ [](\A c \in Clients : (c \in DOMAIN request_logs) <=> (history[c].calls > 0))
    /\ [][DOMAIN request_logs \subseteq DOMAIN request_logs']_vars
\* a client keeps its entry, and the timestamps in it, although all of them are
\* window_size old or older at the time of a later call made for another client
C12_Witness ==
    /\ PositiveConfig /\ last.called
    /\ \E c \in Clients \ {last.clientId} :
          /\ c \in DOMAIN request_logs
          /\ request_logs[c] # <<>>
          /\ \A i \in DOMAIN request_logs[c] : Age(request_logs[c][i]) >= window_size

\* C13: whatever the order of the timestamps, the expiry step removes exactly
\* the longest prefix of the log whose entries all have age >= window_size; it
\* stops at the first younger entry and removes nothing behind it.
LongestExpiredPrefix(log) ==
    CHOOSE k \in 0..Len(log) :
        /\ \A i \in 1..k : Age(log[i]) >= window_size
        /\ k < Len(log) => Age(log[k + 1]) < window_size
C13_PrefixOnlyExpiry ==
    last.called =>
        last.trimmed = SubSeq(last.pre, LongestExpiredPrefix(last.pre) + 1, Len(last.pre))
\* a stale entry survives the call behind a front entry that is not expired
C13_Witness ==
    /\ PositiveConfig /\ last.called /\ ~LastOrdered
    /\ last.trimmed # <<>> /\ Age(last.trimmed[1]) < window_size
    /\ \E i \in DOMAIN last.trimmed : i > 1 /\ Age(last.trimmed[i]) >= window_size
    /\ \E i \in DOMAIN Post : Post[i] = last.trimmed[Len(last.trimmed)]

\* C14: the log of a client whose timestamps were supplied in non-decreasing
\* order is sorted in non-decreasing order from front to back, so its front
\* entry is its oldest.
Sorted(log) == \A i, j \in DOMAIN log : i < j => log[i] <= log[j]
C14_ChronologicalLog ==
    \A c \in Clients :
        history[c].ordered =>
            LET log == LogOf(request_logs, c)
            IN /\ Sorted(log)
               /\ log # <<>> => Head(log) = MinOf(log)
\* an ordered client's log holds two different timestamps, the older in front
C14_Witness ==
    /\ last.called /\ LastOrdered
    /\ Len(Post) >= 2 /\ Post[1] < Post[Len(Post)]

\* C15: with max_requests >= 1 and window_size >= 1, a client whose timestamps
\* were supplied in non-decreasing order has at most max_requests admitted
\* timestamps inside any window [w, w + window_size).
C15_OrderedCapacity ==
    (constructed /\ max_requests >= 1 /\ window_size >= 1) =>
        \A c \in Clients :
            history[c].ordered =>
                \A w \in WindowStarts : AdmittedIn(c, w) <= max_requests
\* an ordered client is admitted again once an entry expired, and the window
\* that ends at the new timestamp holds exactly max_requests admissions
C15_Witness ==
    /\ max_requests >= 1 /\ window_size >= 1
    /\ last.called /\ LastOrdered /\ last.valid /\ Removed > 0
    /\ AdmittedIn(last.clientId, last.curr_time - window_size + 1) = max_requests

\* C16: with max_requests >= 0, no client's log is ever longer than
\* max_requests, whatever the order of the timestamps supplied.
C16_BoundedLog ==
    (constructed /\ max_requests >= 0) =>
        \A c \in Clients : Len(LogOf(request_logs, c)) <= max_requests
\* a client that supplied a timestamp out of order holds a full log
C16_Witness ==
    /\ last.called /\ ~LastOrdered /\ max_requests > 0
    /\ Len(Post) = max_requests

\* C17: run by a single caller, every call goes on step by step until it
\* returns a boolean: no step raises, some step is always enabled, each step
\* lowers a bound on the steps left, and the expiry loop makes at most as many
\* iterations as the log had entries when the call began, each removing one entry.
StepOf(th) ==
    \/ LoopTest(th) \/ ReadFront(th) \/ PopLeft(th)
    \/ CheckValid(th) \/ RecordStep(th) \/ Return(th)
\* steps left, at most, for a call at t.pc whose client's log has n entries
StepsLeft(t, n) ==
    CASE t.pc = "test" -> 3 * n + 4
      [] t.pc = "front" -> 3 * n + 3
      [] t.pc = "pop" -> 3 * n + 2
      [] t.pc = "check" -> 3
      [] t.pc = "record" -> 2
      [] t.pc = "return" -> 1
      [] OTHER -> 0
InCall == ~At(Caller, "idle")
C17_Termination ==
    /\ [](/\ ~At(Caller, "raised")
          /\ InCall => ENABLED StepOf(Caller)
          /\ At(Caller, "return") => threads[Caller].valid \in BOOLEAN
          /\ threads[Caller].iters <= threads[Caller].entered
          /\ (At(Caller, "test") \/ At(Caller, "front") \/ At(Caller, "pop"))
                => Len(MyLog(Caller)) = threads[Caller].entered - threads[Caller].iters)
    /\ [][InCall =>
            StepsLeft(threads'[Caller],
                      Len(LogOf(request_logs', threads[Caller].clientId)))
              < StepsLeft(threads[Caller], Len(MyLog(Caller)))]_vars
\* the loop removed every one of at least two entries and the call goes on to decide
C17_Witness ==
    /\ At(Caller, "check")
    /\ threads[Caller].entered >= 2
    /\ threads[Caller].iters = threads[Caller].entered
    /\ MyLog(Caller) = <<>>

\* C18: a call repeated at once with the same arguments: after an admission it
\* either appends a second copy of curr_time behind the first or is denied;
\* after a denial it is denied again, removes no entry and changes nothing.
Repeated == last.called /\ last'.called
            /\ last'.clientId = last.clientId /\ last'.curr_time = last.curr_time
RepeatedAsClaimed ==
    Repeated =>
        /\ last.valid =>
              \/ last'.valid /\ LogOf(request_logs', last.clientId) = Post \o <<last.curr_time>>
              \/ ~last'.valid
        /\ ~last.valid =>
              /\ ~last'.valid
              /\ last'.trimmed = last'.pre
              /\ request_logs' = request_logs
              /\ max_requests' = max_requests /\ window_size' = window_size
C18_RepeatedCall == [][RepeatedAsClaimed]_vars
\* the same, for the limiters the constructor is meant to accept only
\* (window_size > 0): holds; the statement fails for window_size <= 0 alone
C18_RepeatedCallPositiveWindow == [][window_size > 0 => RepeatedAsClaimed]_vars

====
